---- MODULE Spec2Model ----
(***************************************************************************)
(* A model of gor's replay pipeline: the HTTP output worker pool           *)
(* (HTTPOutput, output_http.go), the pcap capture input (PcapInput) and    *)
(* the differential analyzer (DiffReporter, diff_reporter.go).             *)
(*                                                                         *)
(* The three subsystems share no state, so each has its own specification  *)
(* (SpecPool, SpecCapture, SpecDiff); the variables of the other two stay  *)
(* at their initial values.                                                *)
(***************************************************************************)
EXTENDS Integers, Sequences, FiniteSets, Bags, TLC

(***************************************************************************)
(* Bounds.  The program's sizes are scaled down so that the state space is *)
(* finite and small; the source's value is given with each.                *)
(***************************************************************************)
\* const initialDynamicWorkers = 10 (output_http.go:10)
initialDynamicWorkers == 2
\* make(chan []byte, 100) (output_http.go:65)
queueCap == 1
\* if deathCount > 20 (output_http.go:134)
deathLimit == 1
\* the number of Write calls the producers make in one run
MaxWrites == 2

\* make(chan CapturedMsg, 10000) (NewPcapInput)
outboxCap == 1
\* time.Tick(time.Minute) (startCapture): the clock counts minutes
flushPeriod == 1
\* FlushOlderThan(time.Now().Add(time.Minute * -2)) (startCapture)
flushHorizon == 2
\* the number of HTTP messages one stream carries
MaxMsgs == 2
\* the minutes one capture session lasts
MaxTime == 3

\* the tasks calling Write
Producers == {1, 2}

\* the TCP connections captured, and the values transport.FastHash() gives them
Conns == {1}
Hashes == {10}

\* make(chan []byte, 100) (diff_reporter.go:28)
diffQueueCap == 1
\* the number of ResponseAnalyze calls the workers make in one run
MaxCalls == 2

\* the workers that call ResponseAnalyze
Analyzers == {1, 2}

\* the fixed pool sizes --output-http-workers is given (0 = dynamic)
FixedSizes == {1, 3}

\* the byte strings the producers write: the k-th Write call of a run is given
\* Payload(k), so that successive calls differ in content and in length
Payload(k) == IF k % 2 = 1 THEN <<1>> ELSE <<2, 2>>

Min(a, b) == IF a <= b THEN a ELSE b

VARIABLES
    \* ---- HTTPOutput (output_http.go) ----
    workers,        \* o.config.workers: 0 = dynamic pool, N > 0 = fixed pool
    activeWorkers,  \* o.activeWorkers
    queue,          \* o.queue: the records written and not yet taken by a worker
    needWorker,     \* o.needWorker: a channel of capacity 1
    master,         \* the workerMaster task: [pc, newWorkers, i]
    wk,             \* the startWorker tasks: a bag of their local states
    prod,           \* the tasks calling Write: producer -> local state
    writes,         \* the number of Write calls made so far
    burst,          \* history: activeWorkers has exceeded initialDynamicWorkers
    peakDepth       \* history: the largest len(o.queue) so far

poolVars == <<workers, activeWorkers, queue, needWorker, master, wk, prod,
              writes, burst, peakDepth>>

VARIABLES
    \* ---- PcapInput (input_pcap.go) ----
    captureResponses, \* p.captureResponses
    out,            \* p.out: the outbox of captured messages
    times,          \* p.times: request id -> capture timestamp
    streamId,       \* connection -> transport.FastHash() of its flow
    stream,         \* the reassembled streams: connection, direction -> state
    hin,            \* the readIncomingStream tasks: connection -> local state
    hout,           \* the readOutgoingStream / discardStream tasks
    now,            \* the wall clock, in minutes
    emittedReq,     \* history: the ids of the requests accepted into the outbox
    emittedResp     \* history: the ids of the responses accepted into the outbox

captureVars == <<captureResponses, out, times, streamId, stream, hin, hout, now,
                 emittedReq, emittedResp>>

VARIABLES
    \* ---- DiffReporter (diff_reporter.go) ----
    ignoreErrors,   \* d.ignoreErrors
    hasSink,        \* d.requestsWriter != nil
    metrics,        \* GorMetrics: metric name -> count of Inc / Timing calls
    totalDiffs,     \* d.totalDiffs
    outQueue,       \* d.outQueue
    az,             \* the workers inside ResponseAnalyze: worker -> local state
    wd,             \* the writeDiffs task: [pc, req]
    diffLog,        \* the ordinals of the [DIFF n] lines logged, in order
    sinkWrites,     \* the payloads written to d.requestsWriter, in order
    calls,          \* the number of ResponseAnalyze calls made so far
    completed,      \* history: the number of calls that have returned
    skips           \* history: the number of calls that returned at line 72

diffVars == <<ignoreErrors, hasSink, metrics, totalDiffs, outQueue, az, wd,
              diffLog, sinkWrites, calls, completed, skips>>

\* PcapInput.Read's caller: the buffer it supplies and what Read returned
VARIABLES
    data,           \* the caller's buffer, a sequence of bytes
    rd              \* the call: not made, returned (n, nil), or panicked

codecVars == <<data, rd>>

\* GorStat
VARIABLES
    statsOn,        \* Settings.stats
    queueStats,     \* the GorStat's fields latest, mean, max, count
    statOp,         \* the last call made: its name, argument and the fields before
    statCalls       \* the number of calls made

statVars == <<statsOn, queueStats, statOp, statCalls>>

vars == <<poolVars, captureVars, diffVars, codecVars, statVars>>

(***************************************************************************)
(* Byte buffers.  A []byte is a reference: a buffer is either a private    *)
(* allocation (owner = 0) holding its own bytes, or the scratch buffer of  *)
(* producer `owner`, whose bytes are whatever that producer holds now.     *)
(***************************************************************************)
Bytes(b) == IF b.owner = 0 THEN b.bytes ELSE prod[b.owner].data

\* buf := data  (no copy: the queue record shares the caller's array)
AliasBuf(p) == [owner |-> p, bytes |-> <<>>]

\* buf := make([]byte, len(data)); copy(buf, data)
MakeBuf(p) ==
    [owner |-> 0,
     bytes |-> [i \in 1..Len(prod[p].data) |-> prod[p].data[i]]]

NoItem == [buf |-> [owner |-> 0, bytes |-> <<>>], orig |-> <<>>]
NoRet == [n |-> -1, err |-> "none"]

(***************************************************************************)
(* Worker local states.                                                    *)
(***************************************************************************)
W(pc, d, wc, item) ==
    [pc |-> pc, deathCount |-> d, workersCount |-> wc, item |-> item]

WStart == W("start", 0, 0, NoItem)
WExited == W("exited", 0, 0, NoItem)

WorkersAt(pc) == {s \in BagToSet(wk) : s.pc = pc}

\* one worker goes from local state s to local state t
Move(s, t) == (wk (-) SetToBag({s})) (+) SetToBag({t})

CountAt(pc) ==
    LET S == WorkersAt(pc)
        RECURSIVE Sum(_)
        Sum(T) == IF T = {} THEN 0
                  ELSE LET x == CHOOSE y \in T : TRUE
                       IN CopiesIn(x, wk) + Sum(T \ {x})
    IN Sum(S)

\* the workers that have registered and not retired
LiveWorkers == CountAt("select") + CountAt("send") + CountAt("check")

(***************************************************************************)
(* NewHTTPOutput                                                           *)
(***************************************************************************)
InitPool ==
    /\ workers \in {0} \cup FixedSizes
    /\ activeWorkers = 0
    /\ queue = <<>>
    /\ needWorker = <<IF workers = 0 THEN initialDynamicWorkers ELSE workers>>
    /\ master = [pc |-> "recv", newWorkers |-> 0, i |-> 0]
    /\ wk = EmptyBag
    /\ prod = [p \in Producers |->
                 [pc |-> "idle", data |-> <<>>,
                  workersCount |-> 0, depth |-> 0, need |-> 0, enq |-> 0,
                  ret |-> NoRet]]
    /\ writes = 0
    /\ burst = FALSE
    /\ peakDepth = 0

(***************************************************************************)
(* workerMaster                                                            *)
(***************************************************************************)
\* newWorkers := <-o.needWorker
MasterRecv ==
    /\ master.pc = "recv"
    /\ needWorker # <<>>
    /\ master' = [pc |-> "spawn", newWorkers |-> Head(needWorker), i |-> 0]
    /\ needWorker' = Tail(needWorker)
    /\ UNCHANGED <<workers, activeWorkers, queue, wk, prod, writes, burst, peakDepth>>
    /\ UNCHANGED <<captureVars, diffVars, codecVars, statVars>>

\* go o.startWorker(); i++
MasterSpawn ==
    /\ master.pc = "spawn"
    /\ master.i < master.newWorkers
    /\ wk' = wk (+) SetToBag({WStart})
    /\ master' = [master EXCEPT !.i = @ + 1]
    /\ UNCHANGED <<workers, activeWorkers, queue, needWorker, prod, writes,
                   burst, peakDepth>>
    /\ UNCHANGED <<captureVars, diffVars, codecVars, statVars>>

\* the for loop ends: return when the pool has a fixed size, else receive again
MasterLoop ==
    /\ master.pc = "spawn"
    /\ master.i >= master.newWorkers
    /\ master' = [pc |-> IF workers # 0 THEN "done" ELSE "recv",
                  newWorkers |-> 0, i |-> 0]
    /\ UNCHANGED <<workers, activeWorkers, queue, needWorker, wk, prod, writes,
                   burst, peakDepth>>
    /\ UNCHANGED <<captureVars, diffVars, codecVars, statVars>>

(***************************************************************************)
(* startWorker                                                             *)
(***************************************************************************)
\* atomic.AddInt64(&o.activeWorkers, 1)
WorkerRegister ==
    /\ BagIn(WStart, wk)
    /\ activeWorkers' = activeWorkers + 1
    /\ burst' = (burst \/ activeWorkers + 1 > initialDynamicWorkers)
    /\ wk' = Move(WStart, W("select", 0, 0, NoItem))
    /\ UNCHANGED <<workers, queue, needWorker, master, prod, writes, peakDepth>>
    /\ UNCHANGED <<captureVars, diffVars, codecVars, statVars>>

\* case data := <-o.queue
WorkerDequeue(s) ==
    /\ s.pc = "select"
    /\ queue # <<>>
    /\ queue' = Tail(queue)
    /\ wk' = Move(s, W("send", s.deathCount, 0, Head(queue)))
    /\ UNCHANGED <<workers, activeWorkers, needWorker, master, prod, writes,
                   burst, peakDepth>>
    /\ UNCHANGED <<captureVars, diffVars, codecVars, statVars>>

\* the worker keeps its deathCount over a dequeue
WorkerSendNoReset(s) ==
    /\ s.pc = "send"
    /\ wk' = Move(s, W("select", s.deathCount, 0, NoItem))
    /\ UNCHANGED <<workers, activeWorkers, queue, needWorker, master, prod,
                   writes, burst, peakDepth>>
    /\ UNCHANGED <<captureVars, diffVars, codecVars, statVars>>

\* o.sendRequest(client, data, diffClient); deathCount = 0
WorkerSend(s) ==
    /\ s.pc = "send"
    /\ wk' = Move(s, W("select", 0, 0, NoItem))
    /\ UNCHANGED <<workers, activeWorkers, queue, needWorker, master, prod,
                   writes, burst, peakDepth>>
    /\ UNCHANGED <<captureVars, diffVars, codecVars, statVars>>

\* a fixed pool's worker retires on idle timeouts like a dynamic one
TimeoutNoModeCheck(s) ==
    LET d == Min(s.deathCount + 1, deathLimit + 1)
    IN IF d > deathLimit
       THEN Move(s, W("check", d, activeWorkers, NoItem))
       ELSE Move(s, W("select", d, 0, NoItem))

\* case <-time.After(100ms): the worker's next local state.  deathCount is
\* only ever compared with the limit, so it is kept up to limit + 1.
Timeout(s) ==
    IF workers = 0
    THEN LET d == Min(s.deathCount + 1, deathLimit + 1)
         IN IF d > deathLimit
            THEN \* workersCount := atomic.LoadInt64(&o.activeWorkers)
                 Move(s, W("check", d, activeWorkers, NoItem))
            ELSE Move(s, W("select", d, 0, NoItem))
    ELSE wk

\* the select times out: nothing was in the queue for 100 ms
WorkerTimeout(s) ==
    /\ s.pc = "select"
    /\ queue = <<>>
    /\ wk' = Timeout(s)
    /\ UNCHANGED <<workers, activeWorkers, queue, needWorker, master, prod,
                   writes, burst, peakDepth>>
    /\ UNCHANGED <<captureVars, diffVars, codecVars, statVars>>

\* the worker returns without the decrement
WorkerRetireNoDecrement(s) ==
    /\ s.pc = "check"
    /\ IF s.workersCount # 1
       THEN wk' = Move(s, WExited)
       ELSE wk' = Move(s, W("select", s.deathCount, 0, NoItem))
    /\ UNCHANGED <<workers, activeWorkers, queue, needWorker, master, prod,
                   writes, burst, peakDepth>>
    /\ UNCHANGED <<captureVars, diffVars, codecVars, statVars>>

\* if workersCount != 1 { atomic.AddInt64(&o.activeWorkers, -1); return }
WorkerRetire(s) ==
    /\ s.pc = "check"
    /\ IF s.workersCount # 1
       THEN /\ activeWorkers' = activeWorkers - 1
            /\ wk' = Move(s, WExited)
       ELSE /\ wk' = Move(s, W("select", s.deathCount, 0, NoItem))
            /\ UNCHANGED activeWorkers
    /\ UNCHANGED <<workers, queue, needWorker, master, prod, writes, burst, peakDepth>>
    /\ UNCHANGED <<captureVars, diffVars, codecVars, statVars>>

(***************************************************************************)
(* Write                                                                   *)
(***************************************************************************)
\* the caller fills its scratch buffer and calls Write(data); Write copies it
WriteCall(p) ==
    /\ prod[p].pc = "idle"
    /\ writes < MaxWrites
    /\ writes' = writes + 1
    /\ prod' = [prod EXCEPT
                  ![p].pc = "enqueue",
                  ![p].data = Payload(writes + 1),
                  ![p].enq = 0,
                  ![p].ret = NoRet]
    /\ UNCHANGED <<workers, activeWorkers, queue, needWorker, master, wk,
                   burst, peakDepth>>
    /\ UNCHANGED <<captureVars, diffVars, codecVars, statVars>>

\* o.queue <- buf: blocks while the queue is full
Enqueue(p) ==
    /\ Len(queue) < queueCap
    /\ queue' = Append(queue, [buf |-> MakeBuf(p), orig |-> prod[p].data])
    /\ prod' = [prod EXCEPT ![p].pc = IF workers = 0 THEN "load" ELSE "return",
                            ![p].enq = @ + 1]

WriteEnqueue(p) ==
    /\ prod[p].pc = "enqueue"
    /\ Enqueue(p)
    /\ peakDepth' = IF Len(queue') > peakDepth THEN Len(queue') ELSE peakDepth
    /\ UNCHANGED <<workers, activeWorkers, needWorker, master, wk, writes,
                   burst>>
    /\ UNCHANGED <<captureVars, diffVars, codecVars, statVars>>

\* workersCount := atomic.LoadInt64(&o.activeWorkers)
WriteLoad(p) ==
    /\ prod[p].pc = "load"
    /\ prod' = [prod EXCEPT ![p].pc = "compare",
                            ![p].workersCount = activeWorkers]
    /\ UNCHANGED <<workers, activeWorkers, queue, needWorker, master, wk,
                   writes, burst, peakDepth>>
    /\ UNCHANGED <<captureVars, diffVars, codecVars, statVars>>

\* if len(o.queue) > int(workersCount); depth keeps the length compared
WriteCompare(p) ==
    /\ prod[p].pc = "compare"
    /\ prod' = [prod EXCEPT
                  ![p].pc = IF Len(queue) > prod[p].workersCount
                            THEN "need" ELSE "return",
                  ![p].depth = Len(queue)]
    /\ UNCHANGED <<workers, activeWorkers, queue, needWorker, master, wk,
                   writes, burst, peakDepth>>
    /\ UNCHANGED <<captureVars, diffVars, codecVars, statVars>>

\* the operand len(o.queue) of the send is evaluated before the send blocks
WriteNeed(p) ==
    /\ prod[p].pc = "need"
    /\ prod' = [prod EXCEPT ![p].pc = "sendNeed", ![p].need = Len(queue)]
    /\ UNCHANGED <<workers, activeWorkers, queue, needWorker, master, wk,
                   writes, burst, peakDepth>>
    /\ UNCHANGED <<captureVars, diffVars, codecVars, statVars>>

\* o.needWorker <- ...: blocks while the channel holds a value
WriteSendNeed(p) ==
    /\ prod[p].pc = "sendNeed"
    /\ Len(needWorker) < 1
    /\ needWorker' = Append(needWorker, prod[p].need)
    /\ prod' = [prod EXCEPT ![p].pc = "return"]
    /\ UNCHANGED <<workers, activeWorkers, queue, master, wk, writes, burst, peakDepth>>
    /\ UNCHANGED <<captureVars, diffVars, codecVars, statVars>>

\* return len(data), nil
WriteReturn(p) ==
    /\ prod[p].pc = "return"
    /\ prod' = [prod EXCEPT ![p].pc = "idle",
                            ![p].workersCount = 0,
                            ![p].depth = 0,
                            ![p].need = 0,
                            ![p].ret = [n |-> Len(prod[p].data), err |-> "nil"]]
    /\ UNCHANGED <<workers, activeWorkers, queue, needWorker, master, wk,
                   writes, burst, peakDepth>>
    /\ UNCHANGED <<captureVars, diffVars, codecVars, statVars>>

NextPool ==
    \/ MasterRecv
    \/ MasterSpawn
    \/ MasterLoop
    \/ WorkerRegister
    \/ \E s \in BagToSet(wk) : WorkerDequeue(s)
    \/ \E s \in BagToSet(wk) : WorkerSend(s)
    \/ \E s \in BagToSet(wk) : WorkerTimeout(s)
    \/ \E s \in BagToSet(wk) : WorkerRetire(s)
    \/ \E p \in Producers : WriteCall(p)
    \/ \E p \in Producers : WriteEnqueue(p)
    \/ \E p \in Producers : WriteLoad(p)
    \/ \E p \in Producers : WriteCompare(p)
    \/ \E p \in Producers : WriteNeed(p)
    \/ \E p \in Producers : WriteSendNeed(p)
    \/ \E p \in Producers : WriteReturn(p)

(***************************************************************************)
(* PcapInput                                                               *)
(***************************************************************************)
Dirs == {"in", "out"}

NoStream == [state |-> "none", lastSeen |-> 0]
H(pc, count, id, timing) ==
    [pc |-> pc, count |-> count, id |-> id, timing |-> timing]

CapturedMsg(id, timing, kind, payload) ==
    [id |-> id, timing |-> timing, kind |-> kind, payload |-> payload]

\* NewPcapInput; the capture session has seen no packet yet
InitCapture ==
    /\ captureResponses \in BOOLEAN
    /\ out = <<>>
    /\ times = <<>>
    /\ streamId \in [Conns -> Hashes]
    /\ stream = [c \in Conns |-> [d \in Dirs |-> NoStream]]
    /\ hin = [c \in Conns |-> H("none", 0, 0, 0)]
    /\ hout = [c \in Conns |-> H("none", 0, 0, 0)]
    /\ now = 0
    /\ emittedReq = {}
    /\ emittedResp = {}

\* p.out <- msg blocks while the outbox is full
recordMsgBlocking(kind, id, timing, payload) ==
    /\ Len(out) < outboxCap
    /\ out' = Append(out, CapturedMsg(id, timing, kind, payload))

\* select { case p.out <- CapturedMsg{...}: default: }
recordMsg(kind, id, timing, payload) ==
    out' = IF Len(out) < outboxCap
           THEN Append(out, CapturedMsg(id, timing, kind, payload))
           ELSE out

\* PcapInput.New: the assembler meets a new flow direction and a task is
\* started to read it
NewStream(c, d) ==
    /\ stream[c][d].state = "none"
    /\ stream' = [stream EXCEPT ![c][d] = [state |-> "open", lastSeen |-> now]]
    /\ IF d = "in"
       THEN /\ hin' = [hin EXCEPT ![c] = H("read", 0, 0, 0)]
            /\ UNCHANGED hout
       ELSE /\ hout' = [hout EXCEPT ![c] =
                          H(IF captureResponses THEN "read" ELSE "drain", 0, 0, 0)]
            /\ UNCHANGED hin
    /\ UNCHANGED <<captureResponses, out, times, streamId, now, emittedReq,
                   emittedResp>>
    /\ UNCHANGED <<poolVars, diffVars, codecVars, statVars>>

\* the peer ends the flow direction
CloseStream(c, d) ==
    /\ stream[c][d].state = "open"
    /\ stream' = [stream EXCEPT ![c][d] = [state |-> "closed", lastSeen |-> 0]]
    /\ UNCHANGED <<captureResponses, out, times, streamId, hin, hout, now,
                   emittedReq, emittedResp>>
    /\ UNCHANGED <<poolVars, diffVars, codecVars, statVars>>

\* case <-ticker: assembler.FlushOlderThan(now - 2 min) closes the streams that
\* have seen no packet since; it is given the assembler, not p.times
TickFlush ==
    /\ now < MaxTime
    /\ now' = now + flushPeriod
    /\ stream' = [c \in DOMAIN stream |-> [d \in Dirs |->
                    IF /\ stream[c][d].state = "open"
                       /\ stream[c][d].lastSeen < now' - flushHorizon
                    THEN [state |-> "closed", lastSeen |-> 0]
                    ELSE stream[c][d]]]
    /\ UNCHANGED <<captureResponses, out, times, streamId, hin, hout,
                   emittedReq, emittedResp>>
    /\ UNCHANGED <<poolVars, diffVars, codecVars, statVars>>

\* http.ReadRequest returns a request: count++; id := streamId + count;
\* t := time.Now().UnixNano(); p.times[id] = t
IncomingRequest(c) ==
    /\ hin[c].pc = "read"
    /\ stream[c]["in"].state = "open"
    /\ hin[c].count < MaxMsgs
    /\ LET id == streamId[c] + hin[c].count + 1
       IN /\ times' = (id :> now) @@ times
          /\ hin' = [hin EXCEPT ![c] = H("record", hin[c].count + 1, id, now)]
    /\ stream' = [stream EXCEPT ![c]["in"].lastSeen = now]
    /\ UNCHANGED <<captureResponses, out, streamId, hout, now, emittedReq,
                   emittedResp>>
    /\ UNCHANGED <<poolVars, diffVars, codecVars, statVars>>

\* p.recordMsg('1', id, t, out)
IncomingRecord(c) ==
    /\ hin[c].pc = "record"
    /\ recordMsg("1", hin[c].id, hin[c].timing, <<c, hin[c].count>>)
    /\ emittedReq' = IF Len(out') > Len(out)
                     THEN emittedReq \cup {hin[c].id} ELSE emittedReq
    /\ hin' = [hin EXCEPT ![c] = H("read", hin[c].count, 0, 0)]
    /\ UNCHANGED <<captureResponses, times, streamId, stream, hout, now,
                   emittedResp>>
    /\ UNCHANGED <<poolVars, diffVars, codecVars, statVars>>

\* http.ReadResponse returns a response: count++; id := streamId + count;
\* t := time.Now().UnixNano(); st, ok := p.times[id]
OutgoingResponse(c) ==
    /\ hout[c].pc = "read"
    /\ stream[c]["out"].state = "open"
    /\ hout[c].count < MaxMsgs
    /\ LET id == streamId[c] + hout[c].count + 1
       IN hout' = [hout EXCEPT ![c] =
                     IF id \in DOMAIN times
                     THEN H("record", hout[c].count + 1, id, now - times[id])
                     ELSE \* log.Println("Response to missing req", ...)
                          H("read", hout[c].count + 1, 0, 0)]
    /\ stream' = [stream EXCEPT ![c]["out"].lastSeen = now]
    /\ UNCHANGED <<captureResponses, out, times, streamId, hin, now,
                   emittedReq, emittedResp>>
    /\ UNCHANGED <<poolVars, diffVars, codecVars, statVars>>

\* p.recordMsg('2', id, rtt, out)
OutgoingRecord(c) ==
    /\ hout[c].pc = "record"
    /\ recordMsg("2", hout[c].id, hout[c].timing, <<c, hout[c].count>>)
    /\ emittedResp' = IF Len(out') > Len(out)
                      THEN emittedResp \cup {hout[c].id} ELSE emittedResp
    /\ hout' = [hout EXCEPT ![c] = H("read", hout[c].count, 0, 0)]
    /\ UNCHANGED <<captureResponses, times, streamId, stream, hin, now,
                   emittedReq>>
    /\ UNCHANGED <<poolVars, diffVars, codecVars, statVars>>

\* the read fails with an error that is not EOF: log, then
\* tcpreader.DiscardBytesToFirstError(r) reads the stream to its end
ReadError(c, d) ==
    /\ stream[c][d].state = "open"
    /\ IF d = "in"
       THEN /\ hin[c].pc = "read"
            /\ hin' = [hin EXCEPT ![c].pc = "discard"]
            /\ UNCHANGED hout
       ELSE /\ hout[c].pc = "read"
            /\ hout' = [hout EXCEPT ![c].pc = "discard"]
            /\ UNCHANGED hin
    /\ UNCHANGED <<captureResponses, out, times, streamId, stream, now,
                   emittedReq, emittedResp>>
    /\ UNCHANGED <<poolVars, diffVars, codecVars, statVars>>

\* DiscardBytesToFirstError returns when the stream has ended: the reading
\* tasks loop to the next read, the discardStream task returns
DiscardEnd(c, d) ==
    /\ stream[c][d].state = "closed"
    /\ IF d = "in"
       THEN /\ hin[c].pc = "discard"
            /\ hin' = [hin EXCEPT ![c].pc = "read"]
            /\ UNCHANGED hout
       ELSE /\ hout[c].pc \in {"discard", "drain"}
            /\ hout' = [hout EXCEPT ![c].pc =
                          IF hout[c].pc = "drain" THEN "done" ELSE "read"]
            /\ UNCHANGED hin
    /\ UNCHANGED <<captureResponses, out, times, streamId, stream, now,
                   emittedReq, emittedResp>>
    /\ UNCHANGED <<poolVars, diffVars, codecVars, statVars>>

\* err == io.EOF || err == io.ErrUnexpectedEOF: return
ReadEOF(c, d) ==
    /\ stream[c][d].state = "closed"
    /\ IF d = "in"
       THEN /\ hin[c].pc = "read"
            /\ hin' = [hin EXCEPT ![c].pc = "done"]
            /\ UNCHANGED hout
       ELSE /\ hout[c].pc = "read"
            /\ hout' = [hout EXCEPT ![c].pc = "done"]
            /\ UNCHANGED hin
    /\ UNCHANGED <<captureResponses, out, times, streamId, stream, now,
                   emittedReq, emittedResp>>
    /\ UNCHANGED <<poolVars, diffVars, codecVars, statVars>>

\* PcapInput.Read: msg := <-p.out
Read ==
    /\ out # <<>>
    /\ out' = Tail(out)
    /\ UNCHANGED <<captureResponses, times, streamId, stream, hin, hout, now,
                   emittedReq, emittedResp>>
    /\ UNCHANGED <<poolVars, diffVars, codecVars, statVars>>

NextCapture ==
    \/ \E c \in Conns, d \in Dirs : NewStream(c, d)
    \/ \E c \in Conns, d \in Dirs : CloseStream(c, d)
    \/ TickFlush
    \/ \E c \in Conns : IncomingRequest(c)
    \/ \E c \in Conns : IncomingRecord(c)
    \/ \E c \in Conns : OutgoingResponse(c)
    \/ \E c \in Conns : OutgoingRecord(c)
    \/ \E c \in Conns, d \in Dirs : ReadError(c, d)
    \/ \E c \in Conns, d \in Dirs : DiscardEnd(c, d)
    \/ \E c \in Conns, d \in Dirs : ReadEOF(c, d)
    \/ Read

(***************************************************************************)
(* PcapInput.Read: the record codec                                        *)
(*                                                                         *)
(* A byte is a one-character string.  The caller supplies the buffer; its  *)
(* length is the caller's choice and its old contents are Filler bytes.    *)
(***************************************************************************)
MaxPayload == 2
MaxBuf == 10
Filler == "#"
CodecKinds == {"1", "2"}
CodecIds == {0, 7, 12}
CodecTimings == {-5, 0, 30}
PayloadBytes == {"x", " ", "\n"}

Payloads == UNION {[1..n -> PayloadBytes] : n \in 0..MaxPayload}

DigitChars == <<"0", "1", "2", "3", "4", "5", "6", "7", "8", "9">>

\* []byte(strconv.FormatUint(n, 10))
RECURSIVE FormatUint(_)
FormatUint(n) ==
    IF n < 10 THEN <<DigitChars[n + 1]>>
    ELSE Append(FormatUint(n \div 10), DigitChars[(n % 10) + 1])

\* []byte(strconv.FormatInt(n, 10))
FormatInt(n) == IF n < 0 THEN <<"-">> \o FormatUint(0 - n) ELSE FormatUint(n)

\* data[i] = b, for an index inside the buffer
SetByte(buf, i, b) == [buf EXCEPT ![i + 1] = b]

\* copy(data[at:], src): as many bytes as fit, the rest is silently left out
Copy(buf, at, src) ==
    [k \in 1..Len(buf) |->
        IF k > at /\ k - at <= Len(src) THEN src[k - at] ELSE buf[k]]

\* the body of Read on message msg and buffer buf: the buffer it leaves and
\* whether it returned totalLen or panicked on an index outside the buffer
ReadResult(msg, buf) ==
    LET idBytes == FormatUint(msg.id)
        timingBytes == FormatInt(msg.timing)
        headerLen == 1 + 1 + Len(idBytes) + 1 + Len(timingBytes)
        totalLen == headerLen + 1 + Len(msg.payload)
        Panic(b) == [state |-> "panic", data |-> b, n |-> 0]
    IN  IF Len(buf) <= 0 THEN Panic(buf)
        ELSE LET d0 == SetByte(buf, 0, msg.kind) IN
        IF Len(buf) <= 1 THEN Panic(d0)
        ELSE LET d1 == SetByte(d0, 1, " ")
                 d2 == Copy(d1, 2, idBytes) IN
        IF Len(buf) <= 2 + Len(idBytes) THEN Panic(d2)
        ELSE LET d3 == SetByte(d2, 2 + Len(idBytes), " ")
                 d4 == Copy(d3, 2 + Len(idBytes) + 1, timingBytes) IN
        IF Len(buf) <= headerLen THEN Panic(d4)
        ELSE LET d5 == SetByte(d4, headerLen, "\n")
                 d6 == Copy(d5, headerLen + 1, msg.payload) IN
        [state |-> "returned", data |-> d6, n |-> totalLen]

\* Read(data): msg := <-p.out, then the record is written into data
ReadData ==
    /\ rd.state = "none"
    /\ out # <<>>
    /\ LET r == ReadResult(Head(out), data)
       IN  /\ data' = r.data
           /\ rd' = [state |-> r.state, n |-> r.n, msg |-> Head(out)]
    /\ out' = Tail(out)
    /\ UNCHANGED <<captureResponses, times, streamId, stream, hin, hout, now,
                   emittedReq, emittedResp>>
    /\ UNCHANGED <<poolVars, diffVars, statVars>>

\* the caller has used the record and is about to call Read again
ReadAgain ==
    /\ rd.state = "returned"
    /\ rd' = [state |-> "none"]
    /\ UNCHANGED <<data, captureVars, poolVars, diffVars, statVars>>

NextCodec ==
    \/ ReadData
    \/ ReadAgain

(***************************************************************************)
(* GorStat                                                                 *)
(*                                                                         *)
(* One caller of Write and the reportStats goroutine share the fields      *)
(* without a lock, so Write is taken one statement at a time and a report  *)
(* may fall between any two of them.                                       *)
(***************************************************************************)
MaxStat == 3
MaxStatCalls == 3

\* the fields of a GorStat
GorStat(latest, mean, max, count) ==
    [latest |-> latest, mean |-> mean, max |-> max, count |-> count]

\* the caller's position in Write, the fields as the call found them, and
\* whether a report has fallen into the call
StatOp(op, pc, latest, before) ==
    [op |-> op, pc |-> pc, latest |-> latest, before |-> before,
     disturbed |-> FALSE]

\* NewGorStat
InitStat ==
    /\ statsOn \in BOOLEAN
    /\ queueStats = GorStat(0, 0, 0, 0)
    /\ statOp = [op |-> "none", pc |-> "done", latest |-> 0,
                 before |-> queueStats, disturbed |-> FALSE]
    /\ statCalls = 0

\* Write(latest) is called; if Settings.stats { ... }
StatWriteCall(latest) ==
    /\ statOp.pc = "done"
    /\ statCalls < MaxStatCalls
    /\ statCalls' = statCalls + 1
    /\ statOp' = StatOp("write", IF statsOn THEN "max" ELSE "done", latest,
                        queueStats)
    /\ UNCHANGED <<statsOn, queueStats>>
    /\ UNCHANGED <<poolVars, captureVars, diffVars, codecVars>>

\* if latest > s.max { s.max = latest }
StatWriteMax ==
    /\ statOp.op = "write" /\ statOp.pc = "max"
    /\ queueStats' = IF statOp.latest > queueStats.max
                     THEN [queueStats EXCEPT !.max = statOp.latest]
                     ELSE queueStats
    /\ statOp' = [statOp EXCEPT !.pc = "mean"]
    /\ UNCHANGED <<statsOn, statCalls>>
    /\ UNCHANGED <<poolVars, captureVars, diffVars, codecVars>>

\* if latest != 0 { s.mean = (s.mean + latest) / 2 }
StatWriteMean ==
    /\ statOp.op = "write" /\ statOp.pc = "mean"
    /\ queueStats' = IF statOp.latest # 0
                     THEN [queueStats EXCEPT
                              !.mean = (@ + statOp.latest) \div 2]
                     ELSE queueStats
    /\ statOp' = [statOp EXCEPT !.pc = "latest"]
    /\ UNCHANGED <<statsOn, statCalls>>
    /\ UNCHANGED <<poolVars, captureVars, diffVars, codecVars>>

\* s.latest = latest
StatWriteLatest ==
    /\ statOp.op = "write" /\ statOp.pc = "latest"
    /\ queueStats' = [queueStats EXCEPT !.latest = statOp.latest]
    /\ statOp' = [statOp EXCEPT !.pc = "count"]
    /\ UNCHANGED <<statsOn, statCalls>>
    /\ UNCHANGED <<poolVars, captureVars, diffVars, codecVars>>

\* s.count = s.count + 1
StatWriteCount ==
    /\ statOp.op = "write" /\ statOp.pc = "count"
    /\ queueStats' = [queueStats EXCEPT !.count = @ + 1]
    /\ statOp' = [statOp EXCEPT !.pc = "done"]
    /\ UNCHANGED <<statsOn, statCalls>>
    /\ UNCHANGED <<poolVars, captureVars, diffVars, codecVars>>

\* Reset
Reset(s) == GorStat(0, 0, 0, 0)

\* reportStats, started by NewGorStat if Settings.stats: log.Println(s);
\* s.Reset(); then sleep for the period
reportStats ==
    /\ statsOn
    /\ statCalls < MaxStatCalls
    /\ statCalls' = statCalls + 1
    /\ queueStats' = Reset(queueStats)
    /\ statOp' = IF statOp.op = "write" /\ statOp.pc # "done"
                 THEN [statOp EXCEPT !.disturbed = TRUE]
                 ELSE StatOp("report", "done", 0, queueStats)
    /\ UNCHANGED statsOn
    /\ UNCHANGED <<poolVars, captureVars, diffVars, codecVars>>

NextStat ==
    \/ \E latest \in 0..MaxStat : StatWriteCall(latest)
    \/ StatWriteMax
    \/ StatWriteMean
    \/ StatWriteLatest
    \/ StatWriteCount
    \/ reportStats

(***************************************************************************)
(* DiffReporter                                                            *)
(*                                                                         *)
(* An HTTP response is a sequence of bytes.  The messages are kept short: *)
(* "H" stands for the protocol version, the status code is its first      *)
(* digit, "K" is the reason phrase, and there is one header byte.          *)
(***************************************************************************)
EmptyLine == <<"\r", "\n", "\r", "\n">>

Response(status, header, body) ==
    <<"H", " ", status, " ", "K", "\r", "\n", header>> \o EmptyLine \o body

\* what a send returns: an error or none, and the response bytes.  The
\* sends of a run return one of these: a plain answer, one with another
\* header, one with another body, a server error, and a failed send.
Sends ==
    {[err |-> FALSE, resp |-> Response("2", "h", <<"b">>)],
     [err |-> FALSE, resp |-> Response("2", "g", <<"b">>)],
     [err |-> FALSE, resp |-> Response("2", "h", <<"c">>)],
     [err |-> FALSE, resp |-> Response("5", "h", <<"b">>)],
     [err |-> TRUE, resp |-> Response("2", "h", <<"c">>)]}

\* bytes.Index(payload, sep): the 0-based place of the first sep, or -1
Index(payload, sep) ==
    LET RECURSIVE From(_)
        From(i) ==
            IF i > Len(payload) - Len(sep) THEN -1
            ELSE IF SubSeq(payload, i + 1, i + Len(sep)) = sep THEN i
                 ELSE From(i + 1)
    IN From(0)

\* payload[from:]
SliceFrom(payload, from) == SubSeq(payload, from + 1, Len(payload))

\* proto.Status: the bytes between the first and the second space
Status(payload) ==
    LET start == Index(payload, <<" ">>) + 1
        end == Index(SliceFrom(payload, start), <<" ">>)
    IN SubSeq(payload, start + 1, start + end)

\* proto.MIMEHeadersEndPos: the place of the byte past the empty line
MIMEHeadersEndPos(payload) == Index(payload, EmptyLine) + 4

\* return err != nil
isErrNoStatus(err, resp) == err

\* isErr: err != nil || proto.Status(resp)[0] == '5'
isErr(err, resp) == err \/ Status(resp)[1] = "5"

\* bytes.Equal(respA, respB)
BodiesEqualWhole(respA, respB) == respA = respB

\* bytes.Equal(respA[proto.MIMEHeadersEndPos(respA):],
\*             respB[proto.MIMEHeadersEndPos(respB):])
BodiesEqual(respA, respB) ==
    SliceFrom(respA, MIMEHeadersEndPos(respA))
        = SliceFrom(respB, MIMEHeadersEndPos(respB))

MetricNames == {"diffing.total", "diffing.err.a", "diffing.err.b",
                "diffing.rtt.a", "diffing.rtt.b", "diffing.match",
                "diffing.diff"}

\* GorMetrics.Inc(stat) and GorMetrics.Timing(stat, d): one more sample
Inc(m, stat) == [m EXCEPT ![stat] = @ + 1]

NoResp == <<>>
A(pc, req, rawErrA, respA, rawErrB, respB, diffNum, outcome) ==
    [pc |-> pc, req |-> req, rawErrA |-> rawErrA, respA |-> respA,
     rawErrB |-> rawErrB, respB |-> respB, diffNum |-> diffNum,
     outcome |-> outcome]
AIdle == A("idle", <<>>, FALSE, NoResp, FALSE, NoResp, 0, "none")

\* NewDiffReporter
InitDiff ==
    /\ ignoreErrors \in BOOLEAN
    /\ hasSink \in BOOLEAN
    /\ metrics = [n \in MetricNames |-> 0]
    /\ totalDiffs = 0
    /\ outQueue = <<>>
    /\ az = [a \in Analyzers |-> AIdle]
    /\ wd = [pc |-> IF hasSink THEN "recv" ELSE "none", req |-> <<>>]
    /\ diffLog = <<>>
    /\ sinkWrites = <<>>
    /\ calls = 0
    /\ completed = 0
    /\ skips = 0

\* sendRequest calls d.ResponseAnalyze(diffClient, request, resp, rtt, err)
AnalyzeCall(a, sent) ==
    /\ az[a].pc = "idle"
    /\ calls < MaxCalls
    /\ calls' = calls + 1
    /\ az' = [az EXCEPT ![a] =
                 A("total", <<"q", calls + 1>>, sent.err, sent.resp, FALSE,
                   NoResp, 0, "none")]
    /\ UNCHANGED <<ignoreErrors, hasSink, metrics, totalDiffs, outQueue, wd,
                   diffLog, sinkWrites, completed, skips>>
    /\ UNCHANGED <<poolVars, captureVars, codecVars, statVars>>

\* GorMetrics.Inc("diffing.total")
AnalyzeTotal(a) ==
    /\ az[a].pc = "total"
    /\ metrics' = Inc(metrics, "diffing.total")
    /\ az' = [az EXCEPT ![a].pc = "send"]
    /\ UNCHANGED <<ignoreErrors, hasSink, totalDiffs, outQueue, wd, diffLog,
                   sinkWrites, calls, completed, skips>>
    /\ UNCHANGED <<poolVars, captureVars, codecVars, statVars>>

\* respB, rawErrB := client.Send(req)
AnalyzeSend(a, sent) ==
    /\ az[a].pc = "send"
    /\ az' = [az EXCEPT ![a].pc = "classify",
                        ![a].rawErrB = sent.err,
                        ![a].respB = sent.resp]
    /\ UNCHANGED <<ignoreErrors, hasSink, metrics, totalDiffs, outQueue, wd,
                   diffLog, sinkWrites, calls, completed, skips>>
    /\ UNCHANGED <<poolVars, captureVars, codecVars, statVars>>

\* errA := isErr(rawErrA, respA); errB := isErr(rawErrB, respB); each side
\* counts an error or records its latency
AnalyzeClassify(a) ==
    /\ az[a].pc = "classify"
    /\ LET errA == isErr(az[a].rawErrA, az[a].respA)
           errB == isErr(az[a].rawErrB, az[a].respB)
           m1 == Inc(metrics, IF errA THEN "diffing.err.a" ELSE "diffing.rtt.a")
       IN metrics' = Inc(m1, IF errB THEN "diffing.err.b" ELSE "diffing.rtt.b")
    /\ az' = [az EXCEPT ![a].pc = "decide"]
    /\ UNCHANGED <<ignoreErrors, hasSink, totalDiffs, outQueue, wd, diffLog,
                   sinkWrites, calls, completed, skips>>
    /\ UNCHANGED <<poolVars, captureVars, codecVars, statVars>>

\* diff_reporter.go:71-80: which of the three ways the call goes
Outcome(a) ==
    LET errA == isErr(az[a].rawErrA, az[a].respA)
        errB == isErr(az[a].rawErrB, az[a].respB)
    IN IF (errA /\ errB) \/ (ignoreErrors /\ (errA \/ errB))
       THEN "skip"
       ELSE IF BodiesEqual(az[a].respA, az[a].respB)
            THEN "match"
            ELSE "diff"

\* the return after GorMetrics.Inc("diffing.match") is missing
CountOutcomeFallThrough(o) ==
    IF o = "skip" THEN metrics
    ELSE IF o = "match"
         THEN Inc(Inc(metrics, "diffing.match"), "diffing.diff")
         ELSE Inc(metrics, "diffing.diff")

\* diff_reporter.go:71-80: the counter the outcome increments
CountOutcome(o) ==
    IF o = "skip" THEN metrics
    ELSE IF o = "match" THEN Inc(metrics, "diffing.match")
         ELSE Inc(metrics, "diffing.diff")

\* diff_reporter.go:71-80: skip and return, or count a match and return, or count a diff
AnalyzeDecide(a) ==
    /\ az[a].pc = "decide"
    /\ LET o == Outcome(a)
       IN /\ metrics' = CountOutcome(o)
          /\ skips' = IF o = "skip" THEN skips + 1 ELSE skips
          /\ az' = [az EXCEPT ![a].outcome = o,
                              ![a].pc = IF o = "diff" THEN "add" ELSE "return"]
    /\ UNCHANGED <<ignoreErrors, hasSink, totalDiffs, outQueue, wd, diffLog,
                   sinkWrites, calls, completed>>
    /\ UNCHANGED <<poolVars, captureVars, codecVars, statVars>>

\* atomic.AddInt64(&d.totalDiffs, 1)
AnalyzeAdd(a) ==
    /\ az[a].pc = "add"
    /\ totalDiffs' = totalDiffs + 1
    /\ az' = [az EXCEPT ![a] =
                 A("load", az[a].req, FALSE, NoResp, FALSE, NoResp, 0, "diff")]
    /\ UNCHANGED <<ignoreErrors, hasSink, metrics, outQueue, wd, diffLog,
                   sinkWrites, calls, completed, skips>>
    /\ UNCHANGED <<poolVars, captureVars, codecVars, statVars>>

\* diffNum := atomic.LoadInt64(&d.totalDiffs)
AnalyzeLoad(a) ==
    /\ az[a].pc = "load"
    /\ az' = [az EXCEPT ![a].pc = "log", ![a].diffNum = totalDiffs]
    /\ UNCHANGED <<ignoreErrors, hasSink, metrics, totalDiffs, outQueue, wd,
                   diffLog, sinkWrites, calls, completed, skips>>
    /\ UNCHANGED <<poolVars, captureVars, codecVars, statVars>>

\* log.Printf("[DIFF %d] ...", diffNum, ...)
AnalyzeLog(a) ==
    /\ az[a].pc = "log"
    /\ diffLog' = Append(diffLog, az[a].diffNum)
    /\ az' = [az EXCEPT ![a].pc = IF hasSink THEN "enqueue" ELSE "return",
                        ![a].diffNum = 0]
    /\ UNCHANGED <<ignoreErrors, hasSink, metrics, totalDiffs, outQueue, wd,
                   sinkWrites, calls, completed, skips>>
    /\ UNCHANGED <<poolVars, captureVars, codecVars, statVars>>

\* select { case d.outQueue <- req: default: }: a full queue drops the request
AnalyzeEnqueueOrDrop(a) ==
    /\ az[a].pc = "enqueue"
    /\ outQueue' = IF Len(outQueue) < diffQueueCap
                   THEN Append(outQueue, az[a].req) ELSE outQueue
    /\ az' = [az EXCEPT ![a].pc = "return"]
    /\ UNCHANGED <<ignoreErrors, hasSink, metrics, totalDiffs, wd, diffLog,
                   sinkWrites, calls, completed, skips>>
    /\ UNCHANGED <<poolVars, captureVars, codecVars, statVars>>

\* d.outQueue <- req: blocks while the queue is full
AnalyzeEnqueue(a) ==
    /\ az[a].pc = "enqueue"
    /\ Len(outQueue) < diffQueueCap
    /\ outQueue' = Append(outQueue, az[a].req)
    /\ az' = [az EXCEPT ![a].pc = "return"]
    /\ UNCHANGED <<ignoreErrors, hasSink, metrics, totalDiffs, wd, diffLog,
                   sinkWrites, calls, completed, skips>>
    /\ UNCHANGED <<poolVars, captureVars, codecVars, statVars>>

\* ResponseAnalyze returns to sendRequest
AnalyzeReturn(a) ==
    /\ az[a].pc = "return"
    /\ completed' = completed + 1
    /\ az' = [az EXCEPT ![a] = AIdle]
    /\ UNCHANGED <<ignoreErrors, hasSink, metrics, totalDiffs, outQueue, wd,
                   diffLog, sinkWrites, calls, skips>>
    /\ UNCHANGED <<poolVars, captureVars, codecVars, statVars>>

\* writeDiffs: req := <-d.outQueue
WriteDiffsRecv ==
    /\ wd.pc = "recv"
    /\ outQueue # <<>>
    /\ wd' = [pc |-> "write", req |-> Head(outQueue)]
    /\ outQueue' = Tail(outQueue)
    /\ UNCHANGED <<ignoreErrors, hasSink, metrics, totalDiffs, az, diffLog,
                   sinkWrites, calls, completed, skips>>
    /\ UNCHANGED <<poolVars, captureVars, codecVars, statVars>>

\* writeDiffs: d.requestsWriter.Write(req)
WriteDiffsWrite ==
    /\ wd.pc = "write"
    /\ sinkWrites' = Append(sinkWrites, wd.req)
    /\ wd' = [pc |-> "recv", req |-> <<>>]
    /\ UNCHANGED <<ignoreErrors, hasSink, metrics, totalDiffs, outQueue, az,
                   diffLog, calls, completed, skips>>
    /\ UNCHANGED <<poolVars, captureVars, codecVars, statVars>>

NextDiff ==
    \/ \E a \in Analyzers, r \in Sends : AnalyzeCall(a, r)
    \/ \E a \in Analyzers : AnalyzeTotal(a)
    \/ \E a \in Analyzers, r \in Sends : AnalyzeSend(a, r)
    \/ \E a \in Analyzers : AnalyzeClassify(a)
    \/ \E a \in Analyzers : AnalyzeDecide(a)
    \/ \E a \in Analyzers : AnalyzeAdd(a)
    \/ \E a \in Analyzers : AnalyzeLoad(a)
    \/ \E a \in Analyzers : AnalyzeLog(a)
    \/ \E a \in Analyzers : AnalyzeEnqueue(a)
    \/ \E a \in Analyzers : AnalyzeReturn(a)
    \/ WriteDiffsRecv
    \/ WriteDiffsWrite

(***************************************************************************)
(* The specifications.                                                     *)
(***************************************************************************)
\* no diff host: the analyzer's state with nothing called
DiffIdle ==
    /\ ignoreErrors = FALSE
    /\ hasSink = FALSE
    /\ metrics = [n \in MetricNames |-> 0]
    /\ totalDiffs = 0
    /\ outQueue = <<>>
    /\ az = [a \in Analyzers |-> AIdle]
    /\ wd = [pc |-> "none", req |-> <<>>]
    /\ diffLog = <<>>
    /\ sinkWrites = <<>>
    /\ calls = 0
    /\ completed = 0
    /\ skips = 0

\* no capture session: the capture input's state before any packet
CaptureIdle ==
    /\ captureResponses = FALSE
    /\ out = <<>>
    /\ times = <<>>
    /\ streamId = [c \in Conns |-> CHOOSE h \in Hashes : TRUE]
    /\ stream = [c \in Conns |-> [d \in Dirs |-> NoStream]]
    /\ hin = [c \in Conns |-> H("none", 0, 0, 0)]
    /\ hout = [c \in Conns |-> H("none", 0, 0, 0)]
    /\ now = 0
    /\ emittedReq = {}
    /\ emittedResp = {}

\* no output: the pool's state with nothing started
PoolIdle ==
    /\ workers = 0
    /\ activeWorkers = 0
    /\ queue = <<>>
    /\ needWorker = <<>>
    /\ master = [pc |-> "recv", newWorkers |-> 0, i |-> 0]
    /\ wk = EmptyBag
    /\ prod = [p \in Producers |->
                 [pc |-> "idle", data |-> <<>>,
                  workersCount |-> 0, depth |-> 0, need |-> 0, enq |-> 0,
                  ret |-> NoRet]]
    /\ writes = 0
    /\ burst = FALSE
    /\ peakDepth = 0

\* no Read call: no buffer
CodecIdle ==
    /\ data = <<>>
    /\ rd = [state |-> "none"]

\* no GorStat
StatIdle ==
    /\ statsOn = FALSE
    /\ queueStats = [latest |-> 0, mean |-> 0, max |-> 0, count |-> 0]
    /\ statOp = [op |-> "none", pc |-> "done", latest |-> 0,
                 before |-> queueStats, disturbed |-> FALSE]
    /\ statCalls = 0

\* the output alone: NewHTTPOutput, with no capture session and no diff host
InitPoolOnly == InitPool /\ CaptureIdle /\ DiffIdle /\ CodecIdle /\ StatIdle
SpecPool == InitPoolOnly /\ [][NextPool]_vars

\* The Go scheduler runs every runnable goroutine, and a worker parked in its
\* select wakes when its 100 ms timer fires: each step of the supervisor, of a
\* worker and of a Write in progress is taken if it stays possible.  A caller
\* is never obliged to make a further Write.
IdleTimeout ==
    \E s \in BagToSet(wk) : s.deathCount <= deathLimit /\ WorkerTimeout(s)

LastTimeout ==
    \E s \in BagToSet(wk) : s.deathCount > deathLimit /\ WorkerTimeout(s)

RetireExit ==
    \E s \in BagToSet(wk) : s.workersCount # 1 /\ WorkerRetire(s)

RetireStay ==
    \E s \in BagToSet(wk) : s.workersCount = 1 /\ WorkerRetire(s)

Busy ==
    \/ MasterRecv
    \/ MasterSpawn
    \/ MasterLoop
    \/ WorkerRegister
    \/ \E s \in BagToSet(wk) : WorkerDequeue(s)
    \/ \E s \in BagToSet(wk) : WorkerSend(s)
    \/ \E p \in Producers :
          \/ WriteEnqueue(p)
          \/ WriteLoad(p)
          \/ WriteCompare(p)
          \/ WriteNeed(p)
          \/ WriteSendNeed(p)
          \/ WriteReturn(p)

FairPool ==
    /\ WF_vars(IdleTimeout)
    /\ WF_vars(LastTimeout)
    /\ WF_vars(RetireExit)
    /\ WF_vars(RetireStay)
    /\ WF_vars(Busy)

SpecPoolFair == SpecPool /\ FairPool

\* the capture input alone
InitCaptureOnly == InitCapture /\ PoolIdle /\ DiffIdle /\ CodecIdle /\ StatIdle
SpecCapture == InitCaptureOnly /\ [][NextCapture]_vars

\* the analyzer alone, called by the workers
InitDiffOnly == InitDiff /\ PoolIdle /\ CaptureIdle /\ CodecIdle /\ StatIdle
SpecDiff == InitDiffOnly /\ [][NextDiff]_vars

\* The analyzer with a diverging-request sink configured.  What the sink is
\* given depends on a call's outcome alone, so the sends return one of three
\* results: a plain answer, one with another body, and a failed send.
SinkSends ==
    {[err |-> FALSE, resp |-> Response("2", "h", <<"b">>)],
     [err |-> FALSE, resp |-> Response("2", "h", <<"c">>)],
     [err |-> TRUE, resp |-> Response("2", "h", <<"c">>)]}

InitSink == InitDiffOnly /\ hasSink

NextSink ==
    \/ \E a \in Analyzers, r \in SinkSends : AnalyzeCall(a, r)
    \/ \E a \in Analyzers : AnalyzeTotal(a)
    \/ \E a \in Analyzers, r \in SinkSends : AnalyzeSend(a, r)
    \/ \E a \in Analyzers : AnalyzeClassify(a)
    \/ \E a \in Analyzers : AnalyzeDecide(a)
    \/ \E a \in Analyzers : AnalyzeAdd(a)
    \/ \E a \in Analyzers : AnalyzeLoad(a)
    \/ \E a \in Analyzers : AnalyzeLog(a)
    \/ \E a \in Analyzers : AnalyzeEnqueue(a)
    \/ \E a \in Analyzers : AnalyzeReturn(a)
    \/ WriteDiffsRecv
    \/ WriteDiffsWrite

\* A worker inside ResponseAnalyze runs on: the shadow send returns (the client
\* has a timeout), and the writeDiffs goroutine runs whenever it can receive
\* or write.  A worker is never obliged to make a further call.
AnalyzerStep(a) ==
    \/ AnalyzeTotal(a)
    \/ \E r \in SinkSends : AnalyzeSend(a, r)
    \/ AnalyzeClassify(a)
    \/ AnalyzeDecide(a)
    \/ AnalyzeAdd(a)
    \/ AnalyzeLoad(a)
    \/ AnalyzeLog(a)
    \/ AnalyzeEnqueue(a)
    \/ AnalyzeReturn(a)

FairSink ==
    /\ \A a \in Analyzers : WF_vars(AnalyzerStep(a))
    /\ WF_vars(WriteDiffsRecv \/ WriteDiffsWrite)

SpecSinkFair == InitSink /\ [][NextSink]_vars /\ FairSink

\* the codec alone: one captured message waits in the outbox and the consumer
\* calls Read with a buffer of its choice
InitCodec ==
    /\ out \in {<<CapturedMsg(id, timing, kind, payload)>> :
                    id \in CodecIds, timing \in CodecTimings,
                    kind \in CodecKinds, payload \in Payloads}
    /\ data \in UNION {[1..n -> {Filler}] : n \in 0..MaxBuf}
    /\ rd = [state |-> "none"]
    /\ captureResponses = FALSE
    /\ times = <<>>
    /\ streamId = [c \in Conns |-> CHOOSE h \in Hashes : TRUE]
    /\ stream = [c \in Conns |-> [d \in Dirs |-> NoStream]]
    /\ hin = [c \in Conns |-> H("none", 0, 0, 0)]
    /\ hout = [c \in Conns |-> H("none", 0, 0, 0)]
    /\ now = 0
    /\ emittedReq = {}
    /\ emittedResp = {}
    /\ PoolIdle
    /\ DiffIdle
    /\ StatIdle

SpecCodec == InitCodec /\ [][NextCodec]_vars

\* a GorStat alone
InitStatOnly == InitStat /\ PoolIdle /\ CaptureIdle /\ DiffIdle /\ CodecIdle

SpecStat == InitStatOnly /\ [][NextStat]_vars

\* a capture session that sees two connections whose transport hashes differ,
\* by one or by more, with response capture on; every message parses and the
\* streams end before the ticker's first flush
TwoConns == {1, 2}
TwoHashes == {<<10, 11>>, <<10, 14>>}

InitTwoConns ==
    /\ captureResponses = TRUE
    /\ out = <<>>
    /\ times = <<>>
    /\ streamId \in TwoHashes
    /\ stream = [c \in TwoConns |-> [d \in Dirs |-> NoStream]]
    /\ hin = [c \in TwoConns |-> H("none", 0, 0, 0)]
    /\ hout = [c \in TwoConns |-> H("none", 0, 0, 0)]
    /\ now = 0
    /\ emittedReq = {}
    /\ emittedResp = {}
    /\ PoolIdle
    /\ DiffIdle
    /\ CodecIdle
    /\ StatIdle

NextTwoConns ==
    \/ \E c \in TwoConns, d \in Dirs : NewStream(c, d)
    \/ \E c \in TwoConns, d \in Dirs : CloseStream(c, d)
    \/ \E c \in TwoConns : IncomingRequest(c)
    \/ \E c \in TwoConns : IncomingRecord(c)
    \/ \E c \in TwoConns : OutgoingResponse(c)
    \/ \E c \in TwoConns : OutgoingRecord(c)
    \/ \E c \in TwoConns, d \in Dirs : ReadEOF(c, d)
    \/ Read

SpecTwoConns == InitTwoConns /\ [][NextTwoConns]_vars

(***************************************************************************)
(* The worker pool's properties.                                           *)
(***************************************************************************)
\* the initial workers have all been spawned and have registered
PoolStarted ==
    /\ workers = 0
    /\ ~BagIn(WStart, wk)
    /\ BagCardinality(wk) >= initialDynamicWorkers

\* C1: in dynamic mode, once the pool has started its initial workers, the
\* active-worker count is at least 1 in every state: no retirement takes it
\* to 0.
C1_AtLeastOneWorker == PoolStarted => activeWorkers >= 1

\* C3: a Write that has returned has enqueued exactly one record and returned
\* (len(data), nil); and every record in the queue or in a worker's hands holds
\* the bytes its Write was given, whatever the caller's buffer holds now.
C3_WriteEnqueuesCopy ==
    /\ \A p \in Producers :
         prod[p].ret # NoRet =>
            /\ prod[p].ret.n = Len(prod[p].data)
            /\ prod[p].ret.err = "nil"
            /\ prod[p].enq = 1
    /\ \A i \in 1..Len(queue) : Bytes(queue[i].buf) = queue[i].orig
    /\ \A s \in WorkersAt("send") : Bytes(s.item.buf) = s.item.orig

\* a producer has returned from a later Write of two bytes while the one byte
\* of an earlier Write is still in the queue or being sent
C3_Witness ==
    /\ \E p \in Producers : prod[p].ret = [n |-> 2, err |-> "nil"]
    /\ \/ \E i \in 1..Len(queue) : Bytes(queue[i].buf) = <<1>>
       \/ \E s \in WorkersAt("send") : Bytes(s.item.buf) = <<1>>

\* the burst is over: the producers have made all their Writes and returned,
\* the queue is drained, no record is being sent and no worker is requested
\* or starting
Quiet ==
    /\ writes = MaxWrites
    /\ \A p \in Producers : prod[p].pc = "idle"
    /\ queue = <<>>
    /\ needWorker = <<>>
    /\ master.pc = "recv"
    /\ ~BagIn(WStart, wk)
    /\ WorkersAt("send") = {}

\* C7: in dynamic mode, after a burst has raised the active-worker count above
\* the initial number, once the pool is quiet the active-worker count
\* eventually becomes 1 and stays 1.
C7_IdlePoolShrinksToOne ==
    [](( workers = 0 /\ burst /\ Quiet) => <>[](activeWorkers = 1))

\* C8: a fixed pool of N spawns N workers once, no Write asks for more, no
\* worker retires, and once the N have started the count is N.
C8_FixedPoolIsFixed ==
    workers # 0 =>
        /\ BagCardinality(wk) <= workers
        /\ ~BagIn(WExited, wk)
        /\ WorkersAt("check") = {}
        /\ \A p \in Producers :
              prod[p].pc \notin {"load", "compare", "need", "sendNeed"}
        /\ master.pc # "recv" => needWorker = <<>>
        /\ master.pc = "done" => BagCardinality(wk) = workers
        /\ (master.pc = "done" /\ ~BagIn(WStart, wk)) => activeWorkers = workers

\* a fixed pool of 3, all started, idle after the producers' Writes
C8_Witness ==
    /\ workers = 3
    /\ master.pc = "done"
    /\ activeWorkers = 3
    /\ writes = MaxWrites
    /\ \A p \in Producers : prod[p].pc = "idle"
    /\ queue = <<>>
    /\ WorkersAt("send") = {}

(***************************************************************************)
(* The capture input's properties.                                         *)
(***************************************************************************)
\* C2: every response accepted into the outbox has the id of a request
\* accepted into the outbox before it.
C2_ResponseAfterRequest == emittedResp \subseteq emittedReq

\* C5: recordMsg never blocks; with the outbox at its capacity the message is
\* dropped and the outbox is unchanged, otherwise the message is appended at
\* the tail; the outbox never holds more than its capacity.
C5_RecordNeverBlocks ==
    /\ [](Len(out) <= outboxCap)
    /\ [](\A c \in Conns :
            /\ hin[c].pc = "record" => ENABLED IncomingRecord(c)
            /\ hout[c].pc = "record" => ENABLED OutgoingRecord(c))
    /\ [][\A c \in Conns :
            /\ (hin[c].pc = "record" /\ hin'[c].pc # "record") =>
                  out' = IF Len(out) = outboxCap
                         THEN out
                         ELSE Append(out, CapturedMsg(hin[c].id, hin[c].timing,
                                                      "1", <<c, hin[c].count>>))
            /\ (hout[c].pc = "record" /\ hout'[c].pc # "record") =>
                  out' = IF Len(out) = outboxCap
                         THEN out
                         ELSE Append(out, CapturedMsg(hout[c].id, hout[c].timing,
                                                      "2", <<c, hout[c].count>>))
         ]_vars

\* two requests were recorded with the outbox never read: the second was
\* dropped and the outbox still holds the first
C5_Witness ==
    \E c \in Conns :
        /\ hin[c].count = 2
        /\ hin[c].pc = "read"
        /\ Len(out) = outboxCap
        /\ emittedReq = {streamId[c] + 1}
        /\ out[1].id = streamId[c] + 1

\* C6: the pending-request table is bounded: once the ticker has flushed, it
\* holds no entry older than the flush horizon.
C6_TableEntriesPurged ==
    \A id \in DOMAIN times : times[id] >= now - flushHorizon

(***************************************************************************)
(* The differential analyzer's properties.                                 *)
(***************************************************************************)
InFlight(pcs) == Cardinality({a \in Analyzers : az[a].pc \in pcs})

\* C4: each call adds 1 to diffing.total and ends in exactly one of match,
\* diff and skip: the total is the calls that have counted themselves, and
\* matches + diffs + skips is the calls that have reached their outcome.
C4_TotalIsSumOfOutcomes ==
    /\ metrics["diffing.total"] =
          completed + InFlight({"send", "classify", "decide", "add", "load",
                                "log", "enqueue", "return"})
    /\ metrics["diffing.match"] + metrics["diffing.diff"] + skips =
          completed + InFlight({"add", "load", "log", "enqueue", "return"})

\* both workers' calls have returned, one as a match and one as a diff
C4_Witness ==
    /\ completed = 2
    /\ metrics["diffing.total"] = 2
    /\ metrics["diffing.match"] = 1
    /\ metrics["diffing.diff"] = 1

\* a call that has just reached its outcome, its two responses still at hand
Decided(a) == az[a].outcome # "none" /\ az[a].respB # NoResp

\* a side is errored: its send failed, or its status code (the third byte of
\* the response) begins with 5
SideErrored(err, resp) == err \/ resp[3] = "5"

\* C9: a call ends with neither a diff nor a match exactly when both sides
\* errored, or ignoreErrors is set and a side errored; otherwise it ends as a
\* match or a diff.
C9_SkipExactlyOnErrors ==
    \A a \in Analyzers :
        Decided(a) =>
            LET eA == SideErrored(az[a].rawErrA, az[a].respA)
                eB == SideErrored(az[a].rawErrB, az[a].respB)
            IN /\ az[a].outcome \in {"skip", "match", "diff"}
               /\ az[a].outcome = "skip" <=>
                     ((eA /\ eB) \/ (ignoreErrors /\ (eA \/ eB)))
               /\ az[a].outcome = "skip" => az[a].pc = "return"

\* the primary answered 5xx and the shadow send failed, errors not ignored:
\* the call was skipped
C9_Witness ==
    \E a \in Analyzers :
        /\ ~ignoreErrors
        /\ az[a].outcome = "skip"
        /\ ~az[a].rawErrA /\ az[a].respA[3] = "5"
        /\ az[a].rawErrB

\* the bytes of a response after its header block, which ends with byte 12
PostHeader(resp) == SubSeq(resp, 13, Len(resp))

\* C10: a call that is not skipped ends as a match if the two responses have
\* the same bytes after the header block, whatever the headers, and as a diff
\* if those bytes differ.
C10_BodyDecidesMatch ==
    \A a \in Analyzers :
        (Decided(a) /\ az[a].outcome # "skip") =>
            (az[a].outcome = "match" <=>
                PostHeader(az[a].respA) = PostHeader(az[a].respB))

\* a match of two responses whose headers differ
C10_Witness ==
    \E a \in Analyzers :
        /\ az[a].outcome = "match"
        /\ az[a].respB # NoResp
        /\ az[a].respA[8] # az[a].respB[8]

\* the requests handed to the sink or on their way to it, oldest first
SinkBound ==
    sinkWrites \o (IF wd.pc = "write" THEN <<wd.req>> ELSE <<>>) \o outQueue

DigitVal(c) == CHOOSE d \in 0..9 : DigitChars[d + 1] = c

IsDigits(w) == Len(w) > 0 /\ \A i \in 1..Len(w) : \E d \in 0..9 : DigitChars[d + 1] = w[i]

RECURSIVE ParseUint(_)
ParseUint(w) ==
    IF Len(w) = 1 THEN DigitVal(w[1])
    ELSE 10 * ParseUint(SubSeq(w, 1, Len(w) - 1)) + DigitVal(w[Len(w)])

\* the inverse codec: the header ends at the first LF and is split at its two
\* SPs; a frame that cannot be split so parses to no message
Malformed == [kind |-> "", id |-> -1, timing |-> 0, payload |-> <<>>]
Parse(frame) ==
    LET nl == Index(frame, <<"\n">>)
        header == SubSeq(frame, 1, nl)
        sp1 == Index(header, <<" ">>)
        rest == SubSeq(header, sp1 + 2, Len(header))
        sp2 == Index(rest, <<" ">>)
        idW == SubSeq(rest, 1, sp2)
        tW == SubSeq(rest, sp2 + 2, Len(rest))
        neg == tW # <<>> /\ tW[1] = "-"
        tD == IF neg THEN Tail(tW) ELSE tW
    IN  IF nl < 0 \/ sp1 # 1 \/ sp2 < 0 THEN Malformed
        ELSE IF ~IsDigits(idW) \/ ~IsDigits(tD) THEN Malformed
        ELSE [kind |-> header[1],
              id |-> ParseUint(idW),
              timing |-> IF neg THEN 0 - ParseUint(tD) ELSE ParseUint(tD),
              payload |-> SubSeq(frame, nl + 2, Len(frame))]

\* kind SP decimal(id) SP decimal(timing) LF payload
Frame(msg) ==
    <<msg.kind, " ">> \o FormatUint(msg.id) \o <<" ">> \o FormatInt(msg.timing)
        \o <<"\n">> \o msg.payload

\* C12: every Read of a captured message returns, its result is the length of
\* the frame kind SP decimal(id) SP decimal(timing) LF payload, the first so
\* many bytes of the buffer are that frame, and parsing them gives the message
\* back
C12_CodecRoundTrip ==
    rd.state # "none" =>
        /\ rd.state = "returned"
        /\ rd.n = Len(Frame(rd.msg))
        /\ rd.n <= Len(data)
        /\ SubSeq(data, 1, rd.n) = Frame(rd.msg)
        /\ Parse(SubSeq(data, 1, rd.n)) = rd.msg

\* the same for the calls whose buffer is as long as the frame
C12_RoundTripWhenBufferFits ==
    (rd.state # "none" /\ Len(data) >= Len(Frame(rd.msg))) =>
        /\ rd.state = "returned"
        /\ rd.n = Len(Frame(rd.msg))
        /\ SubSeq(data, 1, rd.n) = Frame(rd.msg)
        /\ Parse(SubSeq(data, 1, rd.n)) = rd.msg


(***************************************************************************)
(* GorStat                                                                 *)
(***************************************************************************)
Larger(a, b) == IF a > b THEN a ELSE b

\* the fields Write(v) is to leave, given the fields it found
Written(before, v) ==
    GorStat(v, (before.mean + v) \div 2, Larger(before.max, v),
            before.count + 1)

\* C13: with statistics on, a Write(v) that has returned and that no report
\* fell into, for every v >= 0 and v = 0 too, has left max as the larger of max
\* and v, mean as (mean + v) / 2, latest as v and count one higher; and a
\* report has left all four at 0
C13_WriteAndReset ==
    /\ (/\ statsOn /\ statOp.op = "write" /\ statOp.pc = "done"
        /\ ~statOp.disturbed) =>
           queueStats = Written(statOp.before, statOp.latest)
    /\ statOp.op = "report" => queueStats = GorStat(0, 0, 0, 0)

\* the same for the writes of a value other than 0 only
C13_NonZeroUndisturbedWrite ==
    (/\ statsOn /\ statOp.op = "write" /\ statOp.pc = "done"
     /\ statOp.latest # 0 /\ ~statOp.disturbed) =>
           queueStats = Written(statOp.before, statOp.latest)


(***************************************************************************)
(* HTTPOutput: what Write waits for, and how many workers there are        *)
(***************************************************************************)
\* the next statement of producer p's Write
WriteStep(p) ==
    \/ WriteEnqueue(p)
    \/ WriteLoad(p)
    \/ WriteCompare(p)
    \/ WriteNeed(p)
    \/ WriteSendNeed(p)
    \/ WriteReturn(p)

\* C14: a Write in progress that cannot take its next step is at its enqueue
\* and the queue is full: a Write that found room in the queue runs to its
\* return without waiting for any other channel or task
C14_WriteBlocksOnlyOnFullQueue ==
    \A p \in Producers :
        (prod[p].pc # "idle" /\ ~ENABLED WriteStep(p)) =>
            (prod[p].pc = "enqueue" /\ Len(queue) >= queueCap)


\* C15: in dynamic mode, once the initial workers have started, the
\* active-worker count is at least 1 and at most the larger of
\* initialDynamicWorkers and the peak queue depth so far
C15_PoolSizeInRange ==
    PoolStarted =>
        /\ activeWorkers >= 1
        /\ activeWorkers <= Larger(initialDynamicWorkers, peakDepth)

\* the upper half of C15 alone
C15_UpperBound ==
    PoolStarted => activeWorkers <= Larger(initialDynamicWorkers, peakDepth)


\* C16: the batch of workers the supervisor spawns on start numbers the larger
\* of initialDynamicWorkers and the configured pool size: in fixed mode, where
\* it is the only batch, as the supervisor returns; in dynamic mode, while no
\* Write has enqueued yet and so none has asked for more
C16_InitialWorkers ==
    /\ (workers # 0 /\ master.pc = "done") =>
           BagCardinality(wk) = Larger(initialDynamicWorkers, workers)
    /\ (workers = 0 /\ peakDepth = 0 /\ master.pc = "spawn") =>
           master.newWorkers = Larger(initialDynamicWorkers, workers)


\* C17: a Write in dynamic mode is on its way to ask for workers exactly if
\* the depth it compared exceeded the count it loaded; the number it asks for
\* is that depth, so more than the count and not 0; and the supervisor spawns
\* no more than the number it received
C17_RequestIsObservedDepth ==
    /\ \A p \in Producers :
          /\ prod[p].pc \in {"need", "sendNeed"} =>
                 (workers = 0 /\ prod[p].depth > prod[p].workersCount)
          /\ prod[p].pc = "sendNeed" =>
                 /\ prod[p].need = prod[p].depth
                 /\ prod[p].need > prod[p].workersCount
                 /\ prod[p].need # 0
    /\ master.pc = "spawn" => master.i <= master.newWorkers


(***************************************************************************)
(* startWorker: retirement                                                 *)
(***************************************************************************)
\* one worker goes from local state s to local state t in this step
Moves(s, t) == s # t /\ wk' = Move(s, t)

\* C18: a worker is at its retirement check only in dynamic mode, with more
\* than deathLimit timeouts behind it and having read a count of at least 1;
\* a timeout raises deathCount by one, a dequeue is followed by deathCount = 0,
\* and the check is reached only by a timeout on an empty queue that makes
\* deathCount exceed the limit; a worker exits only from the check, having
\* read a count greater than 1, and the step lowers activeWorkers by exactly 1
\* and leaves the queue alone; a worker that has exited takes no further step
C18_RetireOnlyWhenIdle ==
    /\ [](\A s \in WorkersAt("check") :
              workers = 0 /\ s.deathCount > deathLimit /\ s.workersCount >= 1)
    /\ [][\A s \in BagToSet(wk) : \A t \in BagToSet(wk') :
              Moves(s, t) =>
                  /\ s.pc # "exited"
                  /\ t.deathCount <= s.deathCount + 1
                  /\ s.pc = "send" => (t.pc = "select" /\ t.deathCount = 0)
                  /\ t.pc = "send" => (s.pc = "select" /\ queue' = Tail(queue))
                  /\ t.pc = "check" =>
                         /\ s.pc = "select" /\ queue = <<>>
                         /\ s.deathCount >= deathLimit
                         /\ t.deathCount > deathLimit
                  /\ t.pc = "exited" =>
                         /\ s.pc = "check" /\ s.workersCount > 1
                         /\ s.deathCount > deathLimit
                         /\ activeWorkers' = activeWorkers - 1
                         /\ queue' = queue
                  /\ activeWorkers' < activeWorkers => t.pc = "exited"
         ]_vars

\* two workers have served the Writes, and one of them has since retired
C18_Witness ==
    /\ workers = 0
    /\ BagIn(WExited, wk)
    /\ activeWorkers = 1
    /\ writes = MaxWrites
    /\ queue = <<>>
    /\ WorkersAt("send") = {}


(***************************************************************************)
(* PcapInput: the pending-request table                                    *)
(***************************************************************************)
\* C19: the table holds no id whose response has been emitted, and every id
\* it holds is that of a request emitted, or being emitted by the incoming
\* handler that has just stored it
C19_EntryConsumedByResponse ==
    \A id \in DOMAIN times :
        /\ id \notin emittedResp
        /\ \/ id \in emittedReq
           \/ \E c \in Conns : hin[c].pc = "record" /\ hin[c].id = id


\* the first half of C19 alone
C19_NoEntryAfterResponse == \A id \in DOMAIN times : id \notin emittedResp


\* C20: the accesses to the table exclude one another: whenever an incoming
\* handler is about to store an entry, no outgoing handler is about to look
\* one up and no other incoming handler is about to store one
C20_TableAccessExclusive ==
    \A c \in Conns :
        ENABLED IncomingRequest(c) =>
            /\ \A c2 \in Conns : ~ENABLED OutgoingResponse(c2)
            /\ \A c2 \in Conns \ {c} : ~ENABLED IncomingRequest(c2)


(***************************************************************************)
(* HTTPOutput: the counter and the records                                 *)
(***************************************************************************)
\* C21: activeWorkers is the number of workers that have registered and not
\* retired; it is never negative and counts no worker that has exited
C21_CounterIsExact ==
    /\ activeWorkers = LiveWorkers
    /\ activeWorkers >= 0
    /\ activeWorkers + CopiesIn(WStart, wk) + CopiesIn(WExited, wk)
           = BagCardinality(wk)

\* a burst has grown the pool, a worker has retired since, others are at work
C21_Witness ==
    /\ workers = 0
    /\ burst
    /\ BagIn(WExited, wk)
    /\ activeWorkers >= 2
    /\ WorkersAt("send") # {}


\* the record of the k-th Write waits in the queue; a worker holds it
InQueue(k) == \E i \in 1..Len(queue) : queue[i].orig = Payload(k)
Held(k) == \E s \in WorkersAt("send") : s.item.orig = Payload(k)

\* C22: no record is at once in the queue and in a worker's hands, or in the
\* queue twice, or in the hands of two workers; and every record that is in
\* the queue is eventually taken out of it by a worker
C22_EveryRecordDispatchedOnce ==
    /\ [](\A k \in 1..MaxWrites :
             /\ ~(InQueue(k) /\ Held(k))
             /\ \A i, j \in 1..Len(queue) :
                   (queue[i].orig = Payload(k) /\ queue[j].orig = Payload(k))
                       => i = j
             /\ \A s \in WorkersAt("send") :
                   s.item.orig = Payload(k) => CopiesIn(s, wk) = 1)
    /\ \A k \in 1..MaxWrites : [](InQueue(k) => <>~InQueue(k))


(***************************************************************************)
(* DiffReporter: the ordinals                                              *)
(***************************************************************************)
\* C23: no ordinal is logged twice, and once every diff counted has been
\* logged the ordinals logged are exactly 1..n for the n diffs
C23_OrdinalsUniqueAndGapFree ==
    /\ \A i, j \in 1..Len(diffLog) : diffLog[i] = diffLog[j] => i = j
    /\ InFlight({"add", "load", "log"}) = 0 =>
           {diffLog[i] : i \in 1..Len(diffLog)} = 1..metrics["diffing.diff"]


(***************************************************************************)
(* PcapInput: the ids                                                      *)
(***************************************************************************)
\* C24: the id an incoming handler has just given to a request was not given
\* to a request emitted before, of its own or of another connection
C24_IdsIdentifyOneExchange ==
    \A c \in DOMAIN hin : hin[c].pc = "record" => hin[c].id \notin emittedReq

====
